---- MODULE Spec2Model ----
(***************************************************************************)
(* A model of the retrieval-augmented question-answering pipeline:         *)
(* DocumentProcessor (document_processor.py), VectorStore                  *)
(* (vector_store.py), LLMClient (llm_client.py), RAGSystem (rag_system.py) *)
(* and the /hackrx/run handler (app/main.py).                              *)
(*                                                                         *)
(* Conventions.                                                            *)
(*  - A Python call that may raise is an operator whose value is           *)
(*    Return(v) or Raise(e); a try/except is a case split on .raised.      *)
(*  - str(e) and f-strings are tuples of their pieces, e.g.                *)
(*    <<"LLM error: ", "No LLM API keys provided">>.                       *)
(*  - A document text is a slice [lo, hi) of the characters of the         *)
(*    extracted text, so slicing is arithmetic on bounds.                  *)
(*  - What the network answers (download, upsert, query, LLM backend) is   *)
(*    drawn by \E in the action that makes the call.                       *)
(***************************************************************************)
EXTENDS Integers, Sequences, FiniteSets, TLC

----------------------------------------------------------------------------
(* Bounds of the model *)

\* calls one RAGSystem instance serves in a behaviour
MaxCalls == 3

\* questions in one answer_multiple_questions call
MaxQuestions == 2

\* tokens in one backend reply (structured-response parsing)
MaxReplyLen == 5

\* characters of a text handed to chunk_text
MaxTextLen == 6

\* chunk_size and overlap values tried on chunk_text
MaxChunkSize == 3

\* add_documents calls on one index
MaxUpserts == 2

\* top_k values tried on search
MaxTopK == 2

\* RAGSystem instances that are constructed against one Pinecone project
MaxInitialisers == 3

----------------------------------------------------------------------------
(* Program constants *)

CHUNK_SIZE == 1000
CHUNK_OVERLAP == 200
TOP_K_RESULTS == 5
METADATA_TEXT_LIMIT == 1000
EMBEDDING_DIM == 384
INDEX_DIMENSION == 384

SUPPORTED_FILE_TYPES == {".pdf", ".docx", ".doc", ".txt"}

OPENAI_PLACEHOLDER == "your-openai-api-key"
PERPLEXITY_PLACEHOLDER == "your-perplexity-api-key"

\* Python's None
None == "None"

----------------------------------------------------------------------------
(* Calls that may raise *)

Return(v) == [raised |-> FALSE, value |-> v]
Raise(e) == [raised |-> TRUE, error |-> e]

Min(a, b) == IF a <= b THEN a ELSE b
Max(a, b) == IF a >= b THEN a ELSE b

----------------------------------------------------------------------------
(* Texts and Python slicing *)

\* The characters [lo, hi) of the extracted text; every empty slice is "".
Text(lo, hi) == IF lo < hi THEN [lo |-> lo, hi |-> hi] ELSE [lo |-> 0, hi |-> 0]

TextLen(t) == t.hi - t.lo

\* Python's clamping of one slice index against a length n.
PyIndex(i, n) == IF i < 0 THEN Max(i + n, 0) ELSE Min(i, n)

\* text[start:end]
PySlice(text, start, end) ==
    LET n == TextLen(text)
        s == PyIndex(start, n)
        e == PyIndex(end, n)
    IN  Text(text.lo + s, text.lo + e)

----------------------------------------------------------------------------
(* DocumentProcessor.chunk_text *)

\* Faulty variant: no early return, every text goes through the loop
ChunkEarlyReturnNever(text, chunk_size) == FALSE

\* if len(text) <= chunk_size: return [text]
ChunkEarlyReturn(text, chunk_size) == TextLen(text) <= chunk_size

\* Faulty variant: start is not pulled back, the windows do not overlap
ChunkIterationNoOverlap(text, chunk_size, overlap, start) ==
    LET end == start + chunk_size
    IN  [chunk |-> PySlice(text, start, end), start |-> end]

\* Faulty variant: end is computed after start is pulled back
ChunkIterationEndAfterPullBack(text, chunk_size, overlap, start) ==
    LET from == IF start > 0 THEN start - overlap ELSE start
        end == from + chunk_size
    IN  [chunk |-> PySlice(text, from, end), start |-> end]

\* One pass of the while body, from the value of start at its top:
\* the chunk appended and the value start is left with.
ChunkIteration(text, chunk_size, overlap, start) ==
    LET end == start + chunk_size
        from == IF start > 0 THEN start - overlap ELSE start
    IN  [chunk |-> PySlice(text, from, end), start |-> end]

RECURSIVE ChunkLoop(_, _, _, _, _)
ChunkLoop(text, chunk_size, overlap, start, chunks) ==
    IF start < TextLen(text)
    THEN LET it == ChunkIteration(text, chunk_size, overlap, start)
         IN  ChunkLoop(text, chunk_size, overlap, it.start, Append(chunks, it.chunk))
    ELSE chunks

chunk_text(text, chunk_size, overlap) ==
    IF ChunkEarlyReturn(text, chunk_size)
    THEN <<text>>
    ELSE ChunkLoop(text, chunk_size, overlap, 0, <<>>)

----------------------------------------------------------------------------
(* DocumentProcessor.process_document *)

\* A locator: the suffix of its path as written, and whether a query follows.
URLs ==
    { [suffix |-> ".pdf", query |-> FALSE],
      [suffix |-> ".TXT", query |-> TRUE],
      [suffix |-> ".docx", query |-> FALSE],
      [suffix |-> ".doc", query |-> FALSE],
      [suffix |-> ".xyz", query |-> TRUE] }

\* str.lower() on the suffixes of locators
Lower(s) ==
    CASE s = ".PDF" -> ".pdf"
      [] s = ".Docx" -> ".docx"
      [] s = ".DOC" -> ".doc"
      [] s = ".TXT" -> ".txt"
      [] OTHER -> s

\* Path(url.split('?')[0]).suffix.lower()
FileExtension(url) == Lower(url.suffix)

\* What requests.get delivers: whether it returned at all and, if so, the bytes
\* as their length, whether a PDF or DOCX reader accepts them, and the length of
\* the text they hold.
Contents ==
    { [fetched |-> TRUE, content_length |-> 50, well_formed |-> TRUE, text_len |-> 50],
      [fetched |-> TRUE, content_length |-> CHUNK_SIZE + 1, well_formed |-> TRUE,
       text_len |-> CHUNK_SIZE + 1],
      [fetched |-> TRUE, content_length |-> 50, well_formed |-> FALSE, text_len |-> 50] }

FetchError == [fetched |-> FALSE, content_length |-> 0, well_formed |-> FALSE, text_len |-> 0]

Downloads == {FetchError} \cup Contents

\* extract_text_from_pdf / extract_text_from_docx: the reader's exception is re-raised
ExtractStructured(content) ==
    IF content.well_formed
    THEN Return(Text(0, content.text_len))
    ELSE Raise(<<"ExtractionError">>)

\* extract_text_from_txt: UTF-8, else Latin-1, which decodes any bytes
ExtractTxt(content) == Return(Text(0, content.text_len))

process_document(url, download) ==
    IF ~download.fetched
    THEN Raise(<<"FetchError">>)
    ELSE LET file_extension == FileExtension(url)
             unsupported == Raise(<<"Unsupported file type: ", file_extension>>)
             text == CASE file_extension = ".pdf" -> ExtractStructured(download)
                       [] file_extension = ".docx" -> ExtractStructured(download)
                       [] file_extension = ".txt" -> ExtractTxt(download)
                       [] OTHER -> unsupported
         IN  IF file_extension \notin SUPPORTED_FILE_TYPES
             THEN unsupported
             ELSE IF text.raised
                  THEN text
                  ELSE Return([text |-> text.value,
                               file_type |-> file_extension,
                               url |-> url,
                               content_length |-> download.content_length])

----------------------------------------------------------------------------
(* Texts with their characters *)

\* A short text given by its characters. The extracted text of a document, of
\* which Text(lo, hi) is a slice, is the letter "a" repeated.
Literal(chars) == [chars |-> chars]

IsLiteral(text) == "chars" \in DOMAIN text

\* str.lower() on one character
LowerChar(c) ==
    CASE c = "F" -> "f"
      [] c = "Q" -> "q"
      [] OTHER -> c

\* A word as runs <<character, count>>, neighbouring runs of one character merged
RECURSIVE Rle(_)
Rle(chars) ==
    IF chars = <<>>
    THEN <<>>
    ELSE LET rest == Rle(Tail(chars))
         IN  IF rest # <<>> /\ rest[1][1] = Head(chars)
             THEN <<<<Head(chars), rest[1][2] + 1>>>> \o Tail(rest)
             ELSE <<<<Head(chars), 1>>>> \o rest

\* str.split() on characters: the maximal runs of characters that are no
\* white space; word is the word being read
RECURSIVE SplitChars(_, _)
SplitChars(chars, word) ==
    IF chars = <<>>
    THEN IF word = <<>> THEN <<>> ELSE <<Rle(word)>>
    ELSE IF Head(chars) = " "
         THEN (IF word = <<>> THEN <<>> ELSE <<Rle(word)>>) \o SplitChars(Tail(chars), <<>>)
         ELSE SplitChars(Tail(chars), Append(word, Head(chars)))

\* text.lower().split()
LowerSplit(text) ==
    IF IsLiteral(text)
    THEN SplitChars([i \in 1..Len(text.chars) |-> LowerChar(text.chars[i])], <<>>)
    ELSE IF TextLen(text) > 0 THEN << <<<<"a", TextLen(text)>>>> >> ELSE <<>>

----------------------------------------------------------------------------
(* VectorStore.create_embeddings *)

\* Python's hash of a str is salted with a seed drawn when the interpreter
\* starts (PYTHONHASHSEED): the seeds two processes may have drawn
HashSeeds == {0, 1}

CharCode(c) ==
    CASE c = "a" -> 1
      [] c = "e" -> 5
      [] c = "f" -> 6
      [] c = "i" -> 9
      [] c = "r" -> 18
      [] c = "q" -> 17
      [] c = "1" -> 27
      [] c = "2" -> 28
      [] OTHER -> 0

RECURSIVE HashRuns(_, _)
HashRuns(runs, h) ==
    IF runs = <<>>
    THEN h
    ELSE HashRuns(Tail(runs), (h * 31 + CharCode(Head(runs)[1]) * Head(runs)[2]) % 65536)

\* hash(word) in a process with the given seed: a function of the word and the
\* seed, which sends some pairs of words to one value
PyHash(word, seed) == HashRuns(word, 7 + 1013 * seed)

RECURSIVE Gcd(_, _)
Gcd(a, b) == IF b = 0 THEN a ELSE Gcd(b, a % b)

RECURSIVE GcdOver(_, _)
GcdOver(B, counts) ==
    IF B = {}
    THEN 0
    ELSE LET b == CHOOSE x \in B : TRUE
         IN  Gcd(counts[b], GcdOver(B \ {b}, counts))

\* embedding / norm when norm > 0. A vector is kept as its non-zero
\* coordinates; a unit vector is kept as the smallest whole-number vector of
\* its direction, so that two unit vectors are equal exactly when these are.
Normalize(counts) ==
    IF DOMAIN counts = {}
    THEN counts
    ELSE [b \in DOMAIN counts |-> counts[b] \div GcdOver(DOMAIN counts, counts)]

\* for word in words: hash_val = hash(word) % 384; embedding[hash_val] += 1.0,
\* then the normalisation
EmbedWords(words, seed) ==
    [width |-> EMBEDDING_DIM,
     direction |-> Normalize(
         [b \in {PyHash(words[i], seed) % EMBEDDING_DIM : i \in 1..Len(words)} |->
             Cardinality({i \in 1..Len(words) : PyHash(words[i], seed) % EMBEDDING_DIM = b})])]

\* The body of the loop of create_embeddings: the embedding of one text
Embed(text, seed) == EmbedWords(LowerSplit(text), seed)

create_embeddings(texts, seed) == [i \in 1..Len(texts) |-> Embed(texts[i], seed)]

ZeroVector == [width |-> EMBEDDING_DIM, direction |-> <<>>]

RECURSIVE DotOver(_, _, _)
DotOver(B, u, v) ==
    IF B = {}
    THEN 0
    ELSE LET b == CHOOSE x \in B : TRUE
         IN  u[b] * v[b] + DotOver(B \ {b}, u, v)

Dot(u, v) == DotOver(DOMAIN u \cap DOMAIN v, u, v)

\* The cosine similarity of a stored vector and a query vector, as the
\* fraction num/den that is its square (no coordinate is negative); 0 when one
\* of the two is the zero vector
Score(stored, query) ==
    LET d == Dot(stored.direction, query.direction)
        n == Dot(stored.direction, stored.direction) * Dot(query.direction, query.direction)
    IN  IF n = 0 THEN [num |-> 0, den |-> 1] ELSE [num |-> d * d, den |-> n]

ScoreGreater(s, t) == s.num * t.den > t.num * s.den
ScoreEqual(s, t) == s.num * t.den = t.num * s.den

----------------------------------------------------------------------------
(* VectorStore.add_documents and VectorStore.search *)

\* texts[i][:1000]
Truncate(text) ==
    IF IsLiteral(text)
    THEN Literal(SubSeq(text.chars, 1, PyIndex(METADATA_TEXT_LIMIT, Len(text.chars))))
    ELSE PySlice(text, 0, METADATA_TEXT_LIMIT)

\* Faulty variant: the ids are numbered from the start in every call
Uuid4PerCall(call, i) == <<0, i>>

\* str(uuid.uuid4()) for the i-th document of the call numbered call: a value
\* no other draw gives
Uuid4(call, i) == <<call, i>>

\* The vectors add_documents prepares: one per document, in input order
PrepareVectors(documents, call, seed) ==
    LET texts == [i \in 1..Len(documents) |-> documents[i].text]
        embeddings == create_embeddings(texts, seed)
    IN  [i \in 1..Len(documents) |->
            [id |-> Uuid4(call, i),
             values |-> embeddings[i],
             metadata |-> [document_url |-> documents[i].metadata.document_url,
                           file_type |-> documents[i].metadata.file_type,
                           chunk_index |-> documents[i].metadata.chunk_index,
                           total_chunks |-> documents[i].metadata.total_chunks,
                           content_length |-> documents[i].metadata.content_length,
                           text |-> Truncate(texts[i])]]]

\* Faulty variant: the index is emptied before the vectors are stored
UpsertIntoEmptied(idx, vectors) == vectors

\* index.upsert(vectors): a vector whose id the index holds replaces that
\* entry, any other vector is added
RECURSIVE Upsert(_, _)
Upsert(idx, vectors) ==
    IF vectors = <<>>
    THEN idx
    ELSE LET v == Head(vectors)
             held == {i \in 1..Len(idx) : idx[i].id = v.id}
         IN  Upsert(IF held = {}
                    THEN Append(idx, v)
                    ELSE [i \in 1..Len(idx) |-> IF i \in held THEN v ELSE idx[i]],
                    Tail(vectors))

\* self.index.upsert(vectors=vectors) and the return of the ids; the upsert's
\* exception is re-raised and leaves the index as it was.
UpsertVectors(idx, vectors, upsert_ok) ==
    IF upsert_ok
    THEN [raised |-> FALSE,
          value |-> [i \in 1..Len(vectors) |-> vectors[i].id],
          index |-> Upsert(idx, vectors)]
    ELSE [raised |-> TRUE, error |-> <<"IndexUnavailableError">>, index |-> idx]

\* add_documents: the ids, and the index after the upsert
add_documents(idx, documents, call, seed, upsert_ok) ==
    UpsertVectors(idx, PrepareVectors(documents, call, seed), upsert_ok)

\* One more match put into matches that are in the store's order of delivery:
\* behind those of greater score and, on an index that puts the older of two
\* matches of equal score first, behind those of equal score
InsertMatch(sorted, m, newest_first) ==
    LET ahead == {i \in 1..Len(sorted) :
                     \/ ScoreGreater(sorted[i].score, m.score)
                     \/ ~newest_first /\ ScoreEqual(sorted[i].score, m.score)}
        k == Cardinality(ahead)
    IN  SubSeq(sorted, 1, k) \o <<m>> \o SubSeq(sorted, k + 1, Len(sorted))

RECURSIVE RankMatches(_, _, _)
RankMatches(matches, sorted, newest_first) ==
    IF matches = <<>>
    THEN sorted
    ELSE RankMatches(Tail(matches), InsertMatch(sorted, Head(matches), newest_first),
                     newest_first)

\* Faulty variant: the query is scoped to the document indexed last
IndexQueryLatestDocument(idx, vector, top_k, newest_first) ==
    LET own == SelectSeq(idx, LAMBDA e : e.metadata.document_url
                                          = idx[Len(idx)].metadata.document_url)
        matches == [i \in 1..Len(own) |->
                       [id |-> own[i].id,
                        score |-> Score(own[i].values, vector),
                        metadata |-> own[i].metadata]]
    IN  SubSeq(RankMatches(matches, <<>>, newest_first), 1, Min(top_k, Len(own)))

\* index.query(vector, top_k, include_metadata=True): the top_k entries of
\* greatest similarity to vector, best first. Entries of equal score come in
\* the order the store keeps to: oldest first, or newest first.
IndexQuery(idx, vector, top_k, newest_first) ==
    LET matches == [i \in 1..Len(idx) |->
                       [id |-> idx[i].id,
                        score |-> Score(idx[i].values, vector),
                        metadata |-> idx[i].metadata]]
    IN  SubSeq(RankMatches(matches, <<>>, newest_first), 1, Min(top_k, Len(idx)))

\* Faulty variant: the matches are formatted last to first
FormatResultsReversed(matches) ==
    [i \in 1..Len(matches) |->
        [id |-> matches[Len(matches) + 1 - i].id,
         score |-> matches[Len(matches) + 1 - i].score,
         text |-> matches[Len(matches) + 1 - i].metadata.text,
         metadata |-> matches[Len(matches) + 1 - i].metadata]]

\* for match in results.matches: formatted_results.append({...})
FormatResults(matches) ==
    [i \in 1..Len(matches) |->
        [id |-> matches[i].id,
         score |-> matches[i].score,
         text |-> matches[i].metadata.text,
         metadata |-> matches[i].metadata]]

\* search: the matches formatted, or the query's exception re-raised
search(idx, query, top_k, seed, query_ok, newest_first) ==
    IF query_ok
    THEN LET query_embedding == create_embeddings(<<query>>, seed)[1]
         IN  Return(FormatResults(IndexQuery(idx, query_embedding, top_k, newest_first)))
    ELSE Raise(<<"IndexUnavailableError">>)

----------------------------------------------------------------------------
(* Backend replies as token strings *)

\* A reply's characters, by their role for the JSON scan: the two braces, a
\* complete member ("k": 1), a key awaiting an object ("k":), prose, whitespace.
Tokens == {"{", "}", "m", "p", "x", " "}

RECURSIVE StripLeft(_)
StripLeft(s) == IF s # <<>> /\ Head(s) = " " THEN StripLeft(Tail(s)) ELSE s

RECURSIVE StripRight(_)
StripRight(s) ==
    IF s # <<>> /\ s[Len(s)] = " " THEN StripRight(SubSeq(s, 1, Len(s) - 1)) ELSE s

\* str.strip()
Strip(s) == StripRight(StripLeft(s))

Positions(s, tok) == {i \in 1..Len(s) : s[i] = tok}

SetMin(S) == CHOOSE i \in S : \A j \in S : i <= j
SetMax(S) == CHOOSE i \in S : \A j \in S : i >= j

\* re.search(r'\{.*\}', text, re.DOTALL): leftmost start, then the longest
\* match, so from the first "{" to the last "}"; <<>> stands for no match.
RegexBraces(text) ==
    LET opens == Positions(text, "{")
        closes == Positions(text, "}")
    IN  IF opens # {} /\ closes # {} /\ SetMin(opens) < SetMax(closes)
        THEN SubSeq(text, SetMin(opens), SetMax(closes))
        ELSE <<>>

NotSpace(tok) == tok # " "

\* The grammar of a JSON object over Tokens, whitespace removed:
\* {}  |  { m }  |  { p object }
RECURSIVE IsJsonObject(_)
IsJsonObject(d) ==
    /\ Len(d) >= 2
    /\ d[1] = "{"
    /\ d[Len(d)] = "}"
    /\ LET inner == SubSeq(d, 2, Len(d) - 1)
       IN  \/ inner = <<>>
           \/ inner = <<"m">>
           \/ /\ inner # <<>>
              /\ inner[1] = "p"
              /\ IsJsonObject(Tail(inner))

\* json.loads(s) for s starting with "{": the object, or JSONDecodeError
json_loads(s) ==
    LET d == SelectSeq(s, NotSpace)
    IN  IF IsJsonObject(d) THEN Return([json |-> d]) ELSE Raise(<<"JSONDecodeError">>)

Fallback(response_text) ==
    [decision |-> "Unable to parse structured response",
     amount |-> "N/A",
     justification |-> response_text]

\* Faulty variant: the JSONDecodeError is not passed over
ParseStructuredStrict(response_text) ==
    LET json_match == RegexBraces(response_text)
    IN  IF json_match # <<>>
        THEN IF json_loads(json_match).raised
             THEN Raise(json_loads(json_match).error)
             ELSE Return(json_loads(json_match).value)
        ELSE Return(Fallback(response_text))

\* generate_structured_response, from "Look for JSON in the response" on: a
\* JSONDecodeError is passed over, so this part returns and never raises
ParseStructured(response_text) ==
    LET json_match == RegexBraces(response_text)
    IN  IF json_match # <<>> /\ ~json_loads(json_match).raised
        THEN Return(json_loads(json_match).value)
        ELSE Return(Fallback(response_text))

----------------------------------------------------------------------------
(* LLMClient *)

\* The values a credential slot is given: unset, empty, either placeholder, live.
KeyValues == {None, "", OPENAI_PLACEHOLDER, PERPLEXITY_PLACEHOLDER, "live-key"}

\* Python truthiness of an Optional[str]
Truthy(key) == key # None /\ key # ""

\* __init__: self.client
LLMClientInit(openai_api_key) ==
    IF Truthy(openai_api_key) /\ openai_api_key # OPENAI_PLACEHOLDER
    THEN "OpenAI"
    ELSE None

\* What a backend answers when asked: a failure, or a message content.
NoReply == [ok |-> FALSE, content |-> <<>>]
Reply(content) == [ok |-> TRUE, content |-> content]

\* self.client.chat.completions.create(...): the content stripped, or the
\* client's exception. invoked lists the backends the call went to.
CallOpenAI(reply) ==
    IF reply.ok
    THEN [raised |-> FALSE, value |-> Strip(reply.content), invoked |-> <<"openai">>]
    ELSE [raised |-> TRUE, error |-> <<"OpenAI API error">>, invoked |-> <<"openai">>]

\* requests.post(perplexity_url, ...): the content stripped on status 200
CallPerplexity(reply) ==
    IF reply.ok
    THEN [raised |-> FALSE, value |-> Strip(reply.content), invoked |-> <<"perplexity">>]
    ELSE [raised |-> TRUE, error |-> <<"Perplexity API error">>, invoked |-> <<"perplexity">>]

NoProvider ==
    [raised |-> TRUE, error |-> <<"No LLM API keys provided">>, invoked |-> <<>>]

generate_response_with_context(client, openai_api_key, perplexity_api_key, replies) ==
    IF client # None /\ Truthy(openai_api_key) /\ openai_api_key # OPENAI_PLACEHOLDER
    THEN CallOpenAI(replies.openai)
    ELSE IF Truthy(perplexity_api_key) /\ perplexity_api_key # PERPLEXITY_PLACEHOLDER
         THEN CallPerplexity(replies.perplexity)
         ELSE NoProvider

\* Faulty variant: the second backend is looked at first
StructuredResponseTextSecondFirst(client, openai_api_key, perplexity_api_key, replies) ==
    IF Truthy(perplexity_api_key) /\ perplexity_api_key # PERPLEXITY_PLACEHOLDER
    THEN CallPerplexity(replies.perplexity)
    ELSE IF client # None /\ Truthy(openai_api_key) /\ openai_api_key # OPENAI_PLACEHOLDER
         THEN CallOpenAI(replies.openai)
         ELSE NoProvider

\* The backend's answer of generate_structured_response, before the JSON scan
StructuredResponseText(client, openai_api_key, perplexity_api_key, replies) ==
    IF client # None /\ Truthy(openai_api_key) /\ openai_api_key # OPENAI_PLACEHOLDER
    THEN CallOpenAI(replies.openai)
    ELSE IF Truthy(perplexity_api_key) /\ perplexity_api_key # PERPLEXITY_PLACEHOLDER
         THEN CallPerplexity(replies.perplexity)
         ELSE NoProvider

generate_structured_response(client, openai_api_key, perplexity_api_key, replies) ==
    LET r == StructuredResponseText(client, openai_api_key, perplexity_api_key, replies)
        parsed == ParseStructured(r.value)
    IN  IF r.raised
        THEN r
        ELSE IF parsed.raised
             THEN [raised |-> TRUE, error |-> parsed.error, invoked |-> r.invoked]
             ELSE [raised |-> FALSE, value |-> parsed.value, invoked |-> r.invoked]

\* Faulty variant: a failure of the first backend falls through to the second
GenerateSimpleFallThrough(client, openai_api_key, perplexity_api_key, replies) ==
    LET second == Truthy(perplexity_api_key) /\ perplexity_api_key # PERPLEXITY_PLACEHOLDER
        second_call == CallPerplexity(replies.perplexity)
    IN  IF client # None /\ Truthy(openai_api_key) /\ openai_api_key # OPENAI_PLACEHOLDER
        THEN IF CallOpenAI(replies.openai).raised /\ second
             THEN [second_call EXCEPT !.invoked = <<"openai">> \o @]
             ELSE CallOpenAI(replies.openai)
        ELSE IF second THEN second_call ELSE NoProvider

generate_simple_response(client, openai_api_key, perplexity_api_key, replies) ==
    IF client # None /\ Truthy(openai_api_key) /\ openai_api_key # OPENAI_PLACEHOLDER
    THEN CallOpenAI(replies.openai)
    ELSE IF Truthy(perplexity_api_key) /\ perplexity_api_key # PERPLEXITY_PLACEHOLDER
         THEN CallPerplexity(replies.perplexity)
         ELSE NoProvider

----------------------------------------------------------------------------
(* RAGSystem *)

\* The documents process_and_index_document prepares from the chunks
PrepareDocuments(document_url, doc_info, chunks) ==
    [i \in 1..Len(chunks) |->
        [text |-> chunks[i],
         metadata |-> [document_url |-> document_url,
                       file_type |-> doc_info.file_type,
                       chunk_index |-> i - 1,
                       total_chunks |-> Len(chunks),
                       content_length |-> doc_info.content_length]]]

\* The try block of process_and_index_document: what it returns or raises, and
\* the index it leaves. env is what the network answers: env.download for
\* requests.get, env.upsert_ok for index.upsert.
IndexTryBlock(document_url, store, idx, call, seed, env) ==
    LET doc == process_document(document_url, env.download)
    IN  IF doc.raised
        THEN [raised |-> TRUE, error |-> doc.error, index |-> idx]
        ELSE LET chunks == chunk_text(doc.value.text, CHUNK_SIZE, CHUNK_OVERLAP)
                 documents == PrepareDocuments(document_url, doc.value, chunks)
                 added == add_documents(idx, documents, call, seed, env.upsert_ok)
             IN  IF store
                 THEN IF added.raised
                      THEN [raised |-> TRUE, error |-> added.error, index |-> added.index]
                      ELSE [raised |-> FALSE,
                            value |-> [success |-> TRUE,
                                       document_url |-> document_url,
                                       chunks_processed |-> Len(documents),
                                       document_ids |-> added.value],
                            index |-> added.index]
                 ELSE [raised |-> FALSE,
                       value |-> [success |-> FALSE,
                                  error |-> <<"Vector store not available">>],
                       index |-> idx]

\* Faulty variant: the handler re-raises, as the handlers of the components do
IndexExceptReraise(e) == Raise(e)

\* except Exception as e: return {"success": False, "error": str(e)}
IndexExcept(e) == Return([success |-> FALSE, error |-> e])

process_and_index_document(document_url, store, idx, call, seed, env) ==
    LET body == IndexTryBlock(document_url, store, idx, call, seed, env)
    IN  [outcome |-> IF body.raised THEN IndexExcept(body.error) ELSE Return(body.value),
         index |-> body.index]

\* Faulty variant: an empty result list is not checked for
NoContextIgnored(search_results) == FALSE

\* if not search_results
NoContext(search_results) == search_results = <<>>

\* A question as a text
QuestionText(question) ==
    Literal(IF question = "Q1" THEN <<"Q", "1">> ELSE <<"Q", "2">>)

\* answer_question: the result it returns, with how many queries it sent to the
\* index and which backends it invoked. query_ok and replies are what the index
\* and the backends answer; seed is the hash seed of the process, newest_first
\* the order the index keeps to among matches of equal score.
answer_question(store, idx, llm_client, openai_key, perplexity_key, question, seed, newest_first, query_ok, replies) ==
    IF ~store
    THEN [result |-> [success |-> FALSE, error |-> <<"Vector store not available">>],
          searches |-> 0, invoked |-> <<>>]
    ELSE LET found == search(idx, QuestionText(question), TOP_K_RESULTS, seed,
                            query_ok, newest_first)
         IN  IF found.raised
             THEN [result |-> [success |-> FALSE, error |-> found.error],
                   searches |-> 1, invoked |-> <<>>]
             ELSE IF NoContext(found.value)
                  THEN [result |-> [success |-> FALSE,
                                    error |-> <<"No relevant context found">>],
                        searches |-> 1, invoked |-> <<>>]
                  ELSE LET llm == generate_simple_response(
                                      llm_client, openai_key, perplexity_key, replies)
                       IN  IF llm.raised
                           THEN [result |-> [success |-> FALSE,
                                             error |-> <<"LLM error: ">> \o llm.error],
                                 searches |-> 1, invoked |-> llm.invoked]
                           ELSE [result |-> [success |-> TRUE,
                                             answer |-> llm.value,
                                             context_used |-> Len(found.value),
                                             search_results |-> found.value],
                                 searches |-> 1, invoked |-> llm.invoked]

\* "llm_client_available" of get_system_status
LlmClientAvailable(client, perplexity_api_key) ==
    client # None \/ (perplexity_api_key # None /\ perplexity_api_key # PERPLEXITY_PLACEHOLDER)

\* The guard of the LLM connectivity test of get_system_status
LlmTestGuard(client, openai_api_key, perplexity_api_key) ==
    \/ client # None /\ Truthy(openai_api_key)
    \/ Truthy(perplexity_api_key) /\ perplexity_api_key # PERPLEXITY_PLACEHOLDER

\* get_system_status: the record it returns. query_ok is whether the test
\* search gets through to the index, test_ok whether the backend that is tried
\* answers the test completion.
get_system_status(store, idx, client, openai_api_key, perplexity_api_key, seed, newest_first, query_ok, test_ok) ==
    [vector_store_available |-> store,
     llm_client_available |-> LlmClientAvailable(client, perplexity_api_key),
     document_processor_available |-> TRUE]
    @@ (IF ~store
        THEN <<>>
        ELSE IF search(idx, Literal(<<"t", "e", "s", "t">>), 1, seed, query_ok,
                       newest_first).raised
             THEN [vector_store_healthy |-> FALSE,
                   vector_store_error |-> <<"IndexUnavailableError">>]
             ELSE [vector_store_healthy |-> TRUE])
    @@ (IF ~LlmTestGuard(client, openai_api_key, perplexity_api_key)
        THEN <<>>
        ELSE IF test_ok
             THEN [llm_client_healthy |-> TRUE]
             ELSE [llm_client_healthy |-> FALSE,
                   llm_client_error |-> IF client # None /\ Truthy(openai_api_key)
                                        THEN <<"OpenAI API error">>
                                        ELSE <<"Perplexity API test failed">>])

\* Faulty variant: only the answered questions are appended
LoopBodySkipFailed(done, result) ==
    IF result.success THEN Append(done, result.answer) ELSE done

\* Faulty variant: the error of a failed question is not carried over
LoopBodyUnknownError(done, result) ==
    IF result.success
    THEN Append(done, result.answer)
    ELSE Append(done, <<"Error: ", "Unknown error">>)

\* The body of the for loop of answer_multiple_questions: answers afterwards
LoopBody(done, result) ==
    IF result.success
    THEN Append(done, result.answer)
    ELSE Append(done, <<"Error: ">> \o result.error)

\* Faulty variant: success only when no question failed
BatchReturnStrict(done) ==
    [success |-> \A i \in 1..Len(done) : done[i] = <<>> \/ done[i][1] # "Error: ",
     answers |-> done,
     error |-> <<"Some questions failed">>]

\* return {"success": True, "answers": answers}
BatchReturn(done) == [success |-> TRUE, answers |-> done]

\* except Exception as e, around the loop
BatchExcept(e) == [success |-> FALSE, error |-> e, answers |-> <<>>]

----------------------------------------------------------------------------
(* run_rag_system and the other entry points *)

\* Faulty variant: the result of indexing is not looked at
IndexingFailedIgnored(result) == FALSE

\* if not index_result["success"]
IndexingFailed(result) == ~result.success

\* if not answer_result["success"]
AnsweringFailed(result) == ~result.success

HTTP500(detail) == [status |-> 500, detail |-> detail]
HTTP200(body) == [status |-> 200, body |-> body]

Questions == {"Q1", "Q2"}

RECURSIVE SeqsUpTo(_, _)
SeqsUpTo(S, n) ==
    IF n = 0
    THEN {<<>>}
    ELSE LET shorter == SeqsUpTo(S, n - 1)
         IN  shorter \cup {Append(q, x) : q \in {r \in shorter : Len(r) = n - 1}, x \in S}

\* The question lists a request carries
QuestionLists == SeqsUpTo(Questions, MaxQuestions)

\* What the network answers during one process_and_index_document call
IndexEnvs == [download : Downloads, upsert_ok : BOOLEAN]

\* What a backend answers to the prompt built for a question, when it answers
AnswerTo(backend, question) == Reply(<<" ", backend, question>>)

\* What the index and the backends answer during one answer_question call:
\* whether the query gets through, and whether a backend that is asked delivers
AnswerEnvs == [query_ok : BOOLEAN, llm_ok : BOOLEAN]

Replies(env, question) ==
    [openai |-> IF env.llm_ok THEN AnswerTo("openai", question) ELSE NoReply,
     perplexity |-> IF env.llm_ok THEN AnswerTo("perplexity", question) ELSE NoReply]

\* A variable that holds no value yet
Nothing == [nothing |-> TRUE]

VARIABLES
    vector_store,        \* RAGSystem.vector_store is not None
    openai_api_key,      \* LLMClient.openai_api_key
    perplexity_api_key,  \* LLMClient.perplexity_api_key
    client,              \* LLMClient.client
    hash_seed,           \* the seed of str hashes in each process
    newest_first,        \* the index puts the newer of two matches of equal score first
    index,               \* the entries of the Pinecone index, in the store's order
    calls,               \* calls served so far
    handler,             \* the entry point in progress
    pc,                  \* Idle, Indexing, Indexed, Answering, Done, Failed
    request,             \* the request in progress: documents, questions
    index_result,        \* what process_and_index_document returned or raised
    last_index,          \* how the latest process_and_index_document call ended
    prior_index,         \* last_index when answer_multiple_questions was called
    answers,             \* answer_multiple_questions' list
    outcomes,            \* what the network answered for each question so far
    searches,            \* index queries sent in this call
    generations,         \* backends invoked in this call
    answer_result,       \* what answer_multiple_questions returned
    response,            \* the entry point's response
    gen_variant,         \* the generate method called
    gen_replies,         \* what the backends answer to that call
    gen_result,          \* what the generate call returned or raised
    chunk_args,          \* the arguments of a chunk_text call
    chunk_result,        \* what chunk_text returned
    chunk_frame,         \* chunk_text inside its while loop: start and chunks
    load_args,           \* the arguments of a process_document call, with what requests.get delivers
    load_result,         \* what process_document returned or raised
    store_added,         \* the latest add_documents call: its arguments and result
    store_found,         \* the search call made since then: its arguments and result
    collection,          \* the index of the configured name in the Pinecone project
    initialiser,         \* each RAGSystem.__init__ under way: where it is, what it saw
    create_calls,        \* the create_index calls issued, with their outcomes
    sessions,            \* the /hackrx/run requests of several processes under way
    system_status        \* what a get_system_status call returned or raised

config_vars == <<vector_store, openai_api_key, perplexity_api_key, client, hash_seed, newest_first>>
store_vars == <<index>>
call_vars == <<calls, handler, pc, request, index_result, last_index, prior_index,
               answers, outcomes, searches, generations, answer_result, response>>
gen_vars == <<gen_variant, gen_replies, gen_result>>
chunk_vars == <<chunk_args, chunk_result, chunk_frame>>
unit_vars == <<load_args, load_result, store_added, store_found, collection,
               initialiser, create_calls, sessions,
                   system_status>>
vars == <<config_vars, store_vars, call_vars, gen_vars, chunk_vars, unit_vars>>


\* The processes that share the index; the first one serves the entry points
Processes == {1, 2}
ServerProcess == 1

\* One process is looked at, its seed being the first one, on an index that
\* puts the older of two matches of equal score first
OneProcess == hash_seed = [p \in Processes |-> 0] /\ newest_first = FALSE

\* The values the variables of the other specifications rest at
GenIdle == gen_variant = "none" /\ gen_replies = Nothing /\ gen_result = Nothing
ChunkIdle == chunk_args = Nothing /\ chunk_result = Nothing /\ chunk_frame = Nothing
LoadIdle == load_args = Nothing /\ load_result = Nothing
StoreCallsIdle == store_added = Nothing /\ store_found = Nothing
EnsureIdle == collection = Nothing /\ initialiser = <<>> /\ create_calls = <<>>
SessionsIdle == sessions = Nothing
StatusIdle == system_status = Nothing
UnitIdle == LoadIdle /\ StoreCallsIdle /\ EnsureIdle /\ SessionsIdle /\ StatusIdle
StoreEmpty == index = <<>>

CallsIdle ==
    /\ calls = 0
    /\ handler = "none"
    /\ pc = "Idle"
    /\ request = Nothing
    /\ index_result = Nothing
    /\ last_index = "none"
    /\ prior_index = "none"
    /\ answers = <<>>
    /\ outcomes = <<>>
    /\ searches = 0
    /\ generations = <<>>
    /\ answer_result = Nothing
    /\ response = Nothing

\* The credentials of the instances that serve calls: none configured, both
\* live, only the second live
ServedKeys ==
    { <<None, None>>,
      <<"live-key", "live-key">>,
      <<OPENAI_PLACEHOLDER, "live-key">> }

\* RAGSystem.__init__: the vector store connected or not, the LLM client built
\* from the two credential slots
RAGSystemInit ==
    /\ vector_store \in BOOLEAN
    /\ \E keys \in ServedKeys :
        /\ openai_api_key = keys[1]
        /\ perplexity_api_key = keys[2]
        /\ client = LLMClientInit(keys[1])

Init == RAGSystemInit /\ OneProcess /\ StoreEmpty /\ CallsIdle /\ GenIdle /\ ChunkIdle /\ UnitIdle

\* An entry point is entered: the state of the call starts afresh
Enter(name, state, req) ==
    /\ handler = "none"
    /\ calls < MaxCalls
    /\ calls' = calls + 1
    /\ handler' = name
    /\ pc' = state
    /\ request' = req
    /\ index_result' = Nothing
    /\ answers' = <<>>
    /\ outcomes' = <<>>
    /\ searches' = 0
    /\ generations' = <<>>
    /\ answer_result' = Nothing
    /\ response' = Nothing
    /\ UNCHANGED <<config_vars, store_vars, last_index, gen_vars, chunk_vars, unit_vars>>

\* POST /hackrx/run arrives
RunRequest ==
    \E url \in URLs, qs \in QuestionLists :
        /\ Enter("run", "Indexing", [documents |-> url, questions |-> qs, is_list |-> TRUE])
        /\ UNCHANGED prior_index

\* POST /api/v1/process-document arrives
ProcessDocumentRequest ==
    \E url \in URLs :
        /\ Enter("process-document", "Indexing",
                 [documents |-> url, questions |-> <<>>, is_list |-> TRUE])
        /\ UNCHANGED prior_index

\* answer_multiple_questions is called on its own, with a list of questions or
\* (is_list false) with an argument that cannot be iterated
AnswerCall ==
    \E qs \in QuestionLists, list \in BOOLEAN :
        /\ list \/ qs = <<>>
        /\ Enter("answer", "Answering",
                 [documents |-> Nothing, questions |-> qs, is_list |-> list])
        /\ prior_index' = last_index

\* process_and_index_document runs, and the entry point acts on what it gave:
\* run_rag_system goes on or answers 500, process-document returns the result.
IndexDocument ==
    /\ pc = "Indexing"
    /\ \E env \in IndexEnvs :
        LET r == process_and_index_document(
                     request.documents, vector_store, index, calls,
                     hash_seed[ServerProcess], env)
            out == r.outcome
        IN  /\ index' = r.index
            /\ index_result' = out
            /\ last_index' = IF ~out.raised /\ out.value.success THEN "ok" ELSE "failed"
            /\ IF out.raised
               THEN /\ pc' = "Failed"
                    /\ response' = HTTP500(<<"Internal server error: ">> \o out.error)
               ELSE IF handler = "run"
                    THEN IF IndexingFailed(out.value)
                         THEN /\ pc' = "Failed"
                              /\ response' = HTTP500(<<"Document processing failed: ">>
                                                     \o out.value.error)
                         ELSE /\ pc' = "Indexed"
                              /\ response' = response
                    ELSE /\ pc' = "Done"
                         /\ response' = HTTP200(out.value)
    /\ UNCHANGED <<config_vars, calls, handler, request, prior_index, answers, outcomes,
                   searches, generations, answer_result, gen_vars, chunk_vars, unit_vars>>

\* run_rag_system calls answer_multiple_questions
BeginAnswering ==
    /\ handler = "run"
    /\ pc = "Indexed"
    /\ pc' = "Answering"
    /\ prior_index' = last_index
    /\ UNCHANGED <<config_vars, store_vars, calls, handler, request, index_result,
                   last_index, answers, outcomes, searches, generations, answer_result,
                   response, gen_vars, chunk_vars, unit_vars>>

\* One pass of the for loop: answer_question on the next question
AnswerNext ==
    /\ pc = "Answering"
    /\ request.is_list
    /\ Len(answers) < Len(request.questions)
    /\ \E env \in AnswerEnvs :
        LET question == request.questions[Len(answers) + 1]
            a == answer_question(vector_store, index, client, openai_api_key,
                                 perplexity_api_key, question,
                                 hash_seed[ServerProcess], newest_first,
                                 env.query_ok, Replies(env, question))
        IN  /\ answers' = LoopBody(answers, a.result)
            /\ outcomes' = Append(outcomes, env)
            /\ searches' = searches + a.searches
            /\ generations' = generations \o a.invoked
    /\ UNCHANGED <<config_vars, store_vars, calls, handler, pc, request, index_result,
                   last_index, prior_index, answer_result, response, gen_vars, chunk_vars, unit_vars>>

\* What the entry point does with answer_multiple_questions' result
Respond(result) ==
    IF handler = "run" /\ AnsweringFailed(result)
    THEN /\ pc' = "Failed"
         /\ response' = HTTP500(<<"Question answering failed: ">> \o result.error)
    ELSE /\ pc' = "Done"
         /\ response' = HTTP200(result.answers)

\* The loop is over: answer_multiple_questions returns
AnswerReturn ==
    /\ pc = "Answering"
    /\ request.is_list
    /\ Len(answers) = Len(request.questions)
    /\ answer_result' = BatchReturn(answers)
    /\ Respond(BatchReturn(answers))
    /\ UNCHANGED <<config_vars, store_vars, calls, handler, request, index_result,
                   last_index, prior_index, answers, outcomes, searches, generations,
                   gen_vars, chunk_vars, unit_vars>>

\* for question in questions raises on an argument that is no list
AnswerRaise ==
    /\ pc = "Answering"
    /\ ~request.is_list
    /\ answer_result' = BatchExcept(<<"TypeError">>)
    /\ Respond(BatchExcept(<<"TypeError">>))
    /\ UNCHANGED <<config_vars, store_vars, calls, handler, request, index_result,
                   last_index, prior_index, answers, outcomes, searches, generations,
                   gen_vars, chunk_vars, unit_vars>>

\* The response is sent; the instance is ready for the next call
Finish ==
    /\ pc \in {"Done", "Failed"}
    /\ handler' = "none"
    /\ pc' = "Idle"
    /\ request' = Nothing
    /\ index_result' = Nothing
    /\ answers' = <<>>
    /\ outcomes' = <<>>
    /\ searches' = 0
    /\ generations' = <<>>
    /\ answer_result' = Nothing
    /\ response' = Nothing
    /\ UNCHANGED <<config_vars, store_vars, calls, last_index, prior_index,
                   gen_vars, chunk_vars, unit_vars>>

Next ==
    \/ RunRequest
    \/ ProcessDocumentRequest
    \/ AnswerCall
    \/ IndexDocument
    \/ BeginAnswering
    \/ AnswerNext
    \/ AnswerReturn
    \/ AnswerRaise
    \/ Finish

Spec == Init /\ [][Next]_vars

----------------------------------------------------------------------------
(* LLMClient on its own: one generate call on every pair of credentials *)

LLMClientInitAll ==
    /\ vector_store = FALSE
    /\ openai_api_key \in KeyValues
    /\ perplexity_api_key \in KeyValues
    /\ client = LLMClientInit(openai_api_key)

\* What one backend may answer
SampleReplies == {NoReply, Reply(<<"x", " ">>), Reply(<<" ", "{", "m", "}">>)}

RepliesOf(S) == [openai : S, perplexity : S]

GenerateSimple(R) ==
    /\ gen_result = Nothing
    /\ \E replies \in R :
        /\ gen_variant' = "simple"
        /\ gen_replies' = replies
        /\ gen_result' = generate_simple_response(
                             client, openai_api_key, perplexity_api_key, replies)
    /\ UNCHANGED <<config_vars, store_vars, call_vars, chunk_vars, unit_vars>>

GenerateWithContext(R) ==
    /\ gen_result = Nothing
    /\ \E replies \in R :
        /\ gen_variant' = "context"
        /\ gen_replies' = replies
        /\ gen_result' = generate_response_with_context(
                             client, openai_api_key, perplexity_api_key, replies)
    /\ UNCHANGED <<config_vars, store_vars, call_vars, chunk_vars, unit_vars>>

GenerateStructured(R) ==
    /\ gen_result = Nothing
    /\ \E replies \in R :
        /\ gen_variant' = "structured"
        /\ gen_replies' = replies
        /\ gen_result' = generate_structured_response(
                             client, openai_api_key, perplexity_api_key, replies)
    /\ UNCHANGED <<config_vars, store_vars, call_vars, chunk_vars, unit_vars>>

InitLLM == LLMClientInitAll /\ OneProcess /\ StoreEmpty /\ CallsIdle /\ GenIdle /\ ChunkIdle /\ UnitIdle

NextLLM ==
    \/ GenerateSimple(RepliesOf(SampleReplies))
    \/ GenerateWithContext(RepliesOf(SampleReplies))
    \/ GenerateStructured(RepliesOf(SampleReplies))

SpecLLM == InitLLM /\ [][NextLLM]_vars

----------------------------------------------------------------------------
(* generate_structured_response on every reply text of up to MaxReplyLen tokens *)

ReplyTexts == SeqsUpTo(Tokens, MaxReplyLen)

\* Both backends answer the same text
SameReplies == {[openai |-> Reply(t), perplexity |-> Reply(t)] : t \in ReplyTexts}

InitParse == RAGSystemInit /\ OneProcess /\ StoreEmpty /\ CallsIdle /\ GenIdle /\ ChunkIdle /\ UnitIdle

NextParse == GenerateStructured(SameReplies)

SpecParse == InitParse /\ [][NextParse]_vars

----------------------------------------------------------------------------
(* chunk_text on its own *)

ChunkArgs ==
    [text : {Text(0, n) : n \in 0..MaxTextLen},
     chunk_size : 1..MaxChunkSize,
     overlap : 0..MaxChunkSize]

ChunkTextCall ==
    /\ chunk_result = Nothing
    /\ chunk_result' = Return(chunk_text(chunk_args.text, chunk_args.chunk_size,
                                         chunk_args.overlap))
    /\ UNCHANGED <<config_vars, store_vars, call_vars, gen_vars, chunk_args, chunk_frame,
                   unit_vars>>

InitChunk ==
    /\ vector_store = FALSE
    /\ openai_api_key = None
    /\ perplexity_api_key = None
    /\ client = LLMClientInit(None)
    /\ OneProcess /\ StoreEmpty /\ CallsIdle /\ GenIdle
    /\ chunk_args \in ChunkArgs
    /\ chunk_result = Nothing
    /\ chunk_frame = Nothing
    /\ UnitIdle

NextChunk == ChunkTextCall

SpecChunk == InitChunk /\ [][NextChunk]_vars

----------------------------------------------------------------------------
(* chunk_text, one pass of its loop at a time *)

\* chunk_text is entered: the early return, or chunks = [] and start = 0
ChunkEnter ==
    /\ chunk_result = Nothing
    /\ chunk_frame = Nothing
    /\ IF ChunkEarlyReturn(chunk_args.text, chunk_args.chunk_size)
       THEN /\ chunk_result' = Return(<<chunk_args.text>>)
            /\ chunk_frame' = chunk_frame
       ELSE /\ chunk_frame' = [start |-> 0, chunks |-> <<>>]
            /\ chunk_result' = chunk_result
    /\ UNCHANGED <<config_vars, store_vars, call_vars, gen_vars, chunk_args, unit_vars>>

\* while start < len(text): one pass of the body
ChunkPass ==
    /\ chunk_result = Nothing
    /\ chunk_frame # Nothing
    /\ chunk_frame.start < TextLen(chunk_args.text)
    /\ LET it == ChunkIteration(chunk_args.text, chunk_args.chunk_size,
                                chunk_args.overlap, chunk_frame.start)
       IN  chunk_frame' = [start |-> it.start, chunks |-> Append(chunk_frame.chunks, it.chunk)]
    /\ UNCHANGED <<config_vars, store_vars, call_vars, gen_vars, chunk_args, chunk_result,
                   unit_vars>>

\* The while test fails: return chunks
ChunkReturn ==
    /\ chunk_result = Nothing
    /\ chunk_frame # Nothing
    /\ ~(chunk_frame.start < TextLen(chunk_args.text))
    /\ chunk_result' = Return(chunk_frame.chunks)
    /\ UNCHANGED <<config_vars, store_vars, call_vars, gen_vars, chunk_args, chunk_frame,
                   unit_vars>>

NextChunkLoop ==
    \/ ChunkEnter
    \/ ChunkPass
    \/ ChunkReturn

\* The interpreter goes on with the call for as long as it has a step to take
SpecChunkLoop == InitChunk /\ [][NextChunkLoop]_vars /\ WF_vars(NextChunkLoop)

----------------------------------------------------------------------------
(* process_document on its own *)

\* Suffixes as written in a locator: the supported ones in lower and in upper
\* case, an unsupported one, and a path with no suffix
Suffixes == {".pdf", ".PDF", ".docx", ".Docx", ".doc", ".DOC", ".txt", ".TXT", ".xyz", ""}

LoadArgs == [url : [suffix : Suffixes, query : BOOLEAN], download : Downloads]

ProcessDocumentCall ==
    /\ load_result = Nothing
    /\ load_result' = process_document(load_args.url, load_args.download)
    /\ UNCHANGED <<config_vars, store_vars, call_vars, gen_vars, chunk_vars, load_args,
                   store_added, store_found, collection, initialiser, create_calls, sessions,
                   system_status>>

InitLoad ==
    /\ vector_store = FALSE
    /\ openai_api_key = None
    /\ perplexity_api_key = None
    /\ client = LLMClientInit(None)
    /\ OneProcess /\ StoreEmpty /\ CallsIdle /\ GenIdle /\ ChunkIdle
    /\ load_args \in LoadArgs
    /\ load_result = Nothing
    /\ StoreCallsIdle /\ EnsureIdle /\ SessionsIdle /\ StatusIdle

NextLoad == ProcessDocumentCall

SpecLoad == InitLoad /\ [][NextLoad]_vars

----------------------------------------------------------------------------
(* VectorStore on its own: processes that share one index *)

\* "Fire", "fire", " ", "fire a", and an extracted text of CHUNK_SIZE + 1 characters
StoreTexts ==
    [upper |-> Literal(<<"F", "i", "r", "e">>),
     lower |-> Literal(<<"f", "i", "r", "e">>),
     blank |-> Literal(<<" ">>),
     two |-> Literal(<<"f", "i", "r", "e", " ", "a">>),
     long |-> Text(0, CHUNK_SIZE + 1)]

\* The documents of one add_documents call, from their texts
StoreDocuments(texts) ==
    [i \in 1..Len(texts) |->
        [text |-> texts[i],
         metadata |-> [document_url |-> [suffix |-> ".txt", query |-> FALSE],
                       file_type |-> ".txt",
                       chunk_index |-> i - 1,
                       total_chunks |-> Len(texts),
                       content_length |-> CHUNK_SIZE + 1]]]

\* The batches stored; the text of white space only is searched for only
StoreBatches ==
    {StoreDocuments(<<StoreTexts.upper>>),
     StoreDocuments(<<StoreTexts.lower>>),
     StoreDocuments(<<StoreTexts.lower, StoreTexts.two>>),
     StoreDocuments(<<StoreTexts.upper, StoreTexts.long>>)}

StoreQueries == {StoreTexts[k] : k \in DOMAIN StoreTexts}

\* A process calls add_documents
AddDocumentsCall ==
    /\ calls < MaxUpserts
    /\ \E p \in Processes, documents \in StoreBatches, upsert_ok \in BOOLEAN :
        LET r == add_documents(index, documents, calls + 1, hash_seed[p], upsert_ok)
        IN  /\ index' = r.index
            /\ store_added' = [process |-> p,
                               documents |-> documents,
                               before |-> index,
                               result |-> IF r.raised THEN Raise(r.error) ELSE Return(r.value)]
    /\ calls' = calls + 1
    /\ store_found' = Nothing
    /\ UNCHANGED <<config_vars, handler, pc, request, index_result, last_index,
                   prior_index, answers, outcomes, searches, generations, answer_result,
                   response, gen_vars, chunk_vars, load_args, load_result, collection,
                   initialiser, create_calls, sessions,
                   system_status>>

\* A process calls search
SearchCall ==
    /\ store_found = Nothing
    /\ \E p \in Processes, query \in StoreQueries, top_k \in 1..MaxTopK, query_ok \in BOOLEAN :
        store_found' = [process |-> p,
                        query |-> query,
                        top_k |-> top_k,
                        query_ok |-> query_ok,
                        query_embedding |-> create_embeddings(<<query>>, hash_seed[p])[1],
                        result |-> search(index, query, top_k, hash_seed[p],
                                          query_ok, newest_first)]
    /\ UNCHANGED <<config_vars, store_vars, call_vars, gen_vars, chunk_vars, load_args,
                   load_result, store_added, collection, initialiser, create_calls, sessions,
                   system_status>>

InitStore ==
    /\ vector_store = TRUE
    /\ openai_api_key = None
    /\ perplexity_api_key = None
    /\ client = LLMClientInit(None)
    /\ hash_seed \in {h \in [Processes -> HashSeeds] : h[ServerProcess] = 0}
    /\ newest_first \in BOOLEAN
    /\ StoreEmpty /\ CallsIdle /\ GenIdle /\ ChunkIdle /\ LoadIdle /\ StoreCallsIdle
    /\ EnsureIdle /\ SessionsIdle /\ StatusIdle

NextStore == AddDocumentsCall \/ SearchCall

SpecStore == InitStore /\ [][NextStore]_vars

----------------------------------------------------------------------------
(* VectorStore._ensure_index_exists, by several RAGSystem instances *)

Initialisers == 1..MaxInitialisers

\* create_index(name, dimension=384, metric="cosine")
CreatedIndex == [dimension |-> INDEX_DIMENSION, metric |-> "cosine"]

AtStart == [pc |-> "start", listed |-> "unknown", vector_store |-> "unset"]

EnsureFrame ==
    UNCHANGED <<config_vars, store_vars, call_vars, gen_vars, chunk_vars, load_args,
                load_result, store_added, store_found, sessions,
                system_status>>

\* if self.index_name not in self.pc.list_indexes().names()
ListIndexes(i) ==
    /\ initialiser[i].pc = "start"
    /\ initialiser' = [initialiser EXCEPT
           ![i].listed = IF collection = Nothing THEN "no" ELSE "yes",
           ![i].pc = IF collection = Nothing THEN "create" ELSE "connect"]
    /\ UNCHANGED <<collection, create_calls>>
    /\ EnsureFrame

\* self.pc.create_index(...): the project creates the index, or answers that
\* the name is taken; that exception leaves _ensure_index_exists and
\* VectorStore.__init__, and RAGSystem.__init__ sets vector_store to None
CreateIndex(i) ==
    /\ initialiser[i].pc = "create"
    /\ IF collection = Nothing
       THEN /\ collection' = CreatedIndex
            /\ create_calls' = Append(create_calls, [by |-> i, outcome |-> "created"])
            /\ initialiser' = [initialiser EXCEPT ![i].pc = "connect"]
       ELSE /\ collection' = collection
            /\ create_calls' = Append(create_calls, [by |-> i, outcome |-> "conflict"])
            /\ initialiser' = [initialiser EXCEPT ![i].pc = "failed",
                                                  ![i].vector_store = "None"]
    /\ EnsureFrame

\* self.index = self.pc.Index(self.index_name)
ConnectIndex(i) ==
    /\ initialiser[i].pc = "connect"
    /\ initialiser' = [initialiser EXCEPT ![i].pc = "done",
                                          ![i].vector_store = "connected"]
    /\ UNCHANGED <<collection, create_calls>>
    /\ EnsureFrame

InitEnsure ==
    /\ vector_store = FALSE
    /\ openai_api_key = None
    /\ perplexity_api_key = None
    /\ client = LLMClientInit(None)
    /\ OneProcess /\ StoreEmpty /\ CallsIdle /\ GenIdle /\ ChunkIdle
    /\ LoadIdle /\ StoreCallsIdle /\ SessionsIdle /\ StatusIdle
    /\ collection \in {Nothing, CreatedIndex}
    /\ initialiser = [i \in Initialisers |-> AtStart]
    /\ create_calls = <<>>

NextEnsure == \E i \in Initialisers : ListIndexes(i) \/ CreateIndex(i) \/ ConnectIndex(i)

SpecEnsure == InitEnsure /\ [][NextEnsure]_vars

----------------------------------------------------------------------------
(* /hackrx/run requests of several processes on the one index *)

\* The requests under way: request s is served by process s, whose RAGSystem
\* is connected to the index the other processes are connected to
Sessions == Processes

\* The documents the requests name
SessionURLs == { [suffix |-> ".pdf", query |-> FALSE], [suffix |-> ".TXT", query |-> TRUE] }

NoSession ==
    [pc |-> "none", documents |-> Nothing, question |-> Nothing, seen |-> 0,
     context |-> <<>>, answer |-> Nothing]

\* POST /hackrx/run arrives at process s
SessionArrives(s) ==
    /\ sessions[s].pc = "none"
    /\ \E url \in SessionURLs, q \in Questions :
          sessions' = [sessions EXCEPT ![s] = [NoSession EXCEPT !.pc = "Indexing",
                                                               !.documents = url,
                                                               !.question = q]]
    /\ UNCHANGED <<config_vars, store_vars, call_vars, gen_vars, chunk_vars, load_args,
                   load_result, store_added, store_found, collection, initialiser,
                   create_calls, system_status>>

\* Step 1 of run_rag_system in process s: process_and_index_document
SessionIndex(s) ==
    /\ sessions[s].pc = "Indexing"
    /\ \E env \in IndexEnvs :
          LET r == process_and_index_document(sessions[s].documents, vector_store, index,
                                              s, hash_seed[s], env)
          IN  /\ index' = r.index
              /\ sessions' = [sessions EXCEPT ![s].pc =
                                 IF IndexingFailed(r.outcome.value) THEN "Failed"
                                                                    ELSE "Answering"]
    /\ UNCHANGED <<config_vars, call_vars, gen_vars, chunk_vars, load_args, load_result,
                   store_added, store_found, collection, initialiser, create_calls,
                   system_status>>

\* Step 2 of run_rag_system in process s: answer_multiple_questions, here on
\* one question; seen is the number of entries the index held at the query
SessionAnswer(s) ==
    /\ sessions[s].pc = "Answering"
    /\ \E env \in AnswerEnvs :
          LET a == answer_question(vector_store, index, client, openai_api_key,
                                   perplexity_api_key, sessions[s].question,
                                   hash_seed[s], newest_first, env.query_ok,
                                   Replies(env, sessions[s].question))
          IN  sessions' = [sessions EXCEPT
                             ![s].pc = "Done",
                             ![s].seen = Len(index),
                             ![s].context = IF a.result.success
                                            THEN a.result.search_results
                                            ELSE <<>>,
                             ![s].answer = LoopBody(<<>>, a.result)[1]]
    /\ UNCHANGED <<config_vars, store_vars, call_vars, gen_vars, chunk_vars, load_args,
                   load_result, store_added, store_found, collection, initialiser,
                   create_calls, system_status>>

\* Each process has built its RAGSystem on the same settings: the store is
\* connected, the index holds nothing yet
InitShared ==
    /\ RAGSystemInit
    /\ vector_store
    /\ hash_seed \in {h \in [Processes -> HashSeeds] : h[ServerProcess] = 0}
    /\ newest_first \in BOOLEAN
    /\ StoreEmpty /\ CallsIdle /\ GenIdle /\ ChunkIdle
    /\ LoadIdle /\ StoreCallsIdle /\ EnsureIdle /\ StatusIdle
    /\ sessions = [s \in Sessions |-> NoSession]

NextShared == \E s \in Sessions : SessionArrives(s) \/ SessionIndex(s) \/ SessionAnswer(s)

SpecShared == InitShared /\ [][NextShared]_vars

----------------------------------------------------------------------------
(* get_system_status and a generate call on every pair of credentials *)

\* What the index and the backends answer to the tests of get_system_status
StatusEnvs == [query_ok : BOOLEAN, test_ok : BOOLEAN]

GetSystemStatus ==
    /\ system_status = Nothing
    /\ \E env \in StatusEnvs :
          system_status' = Return(get_system_status(
                                      vector_store, index, client, openai_api_key,
                                      perplexity_api_key, hash_seed[ServerProcess],
                                      newest_first, env.query_ok, env.test_ok))
    /\ UNCHANGED <<config_vars, store_vars, call_vars, gen_vars, chunk_vars, load_args,
                   load_result, store_added, store_found, collection, initialiser,
                   create_calls, sessions>>

InitStatus ==
    /\ vector_store \in BOOLEAN
    /\ openai_api_key \in KeyValues
    /\ perplexity_api_key \in KeyValues
    /\ client = LLMClientInit(openai_api_key)
    /\ OneProcess /\ StoreEmpty /\ CallsIdle /\ GenIdle /\ ChunkIdle /\ UnitIdle

NextStatus ==
    \/ GetSystemStatus
    \/ GenerateSimple(RepliesOf(SampleReplies))

SpecStatus == InitStatus /\ [][NextStatus]_vars

----------------------------------------------------------------------------
(* Properties *)

\* A credential slot that is set, not empty and not its placeholder
SlotLive(key, sentinel) == key \notin {None, "", sentinel}

\* The backend the selection policy names for the instance's credentials
PolicyBackend ==
    IF SlotLive(openai_api_key, OPENAI_PLACEHOLDER)
    THEN "openai"
    ELSE IF SlotLive(perplexity_api_key, PERPLEXITY_PLACEHOLDER)
         THEN "perplexity"
         ELSE "none"

IsErrorAnswer(a) == a # <<>> /\ a[1] = "Error: "

\* A batch of questions is being answered or has been answered
InBatch ==
    /\ handler \in {"run", "answer"}
    /\ pc \in {"Answering", "Done", "Failed"}
    /\ request.is_list

\* Question i of the batch had all it takes to be answered
Answerable(i) ==
    /\ vector_store
    /\ index # <<>>
    /\ outcomes[i].query_ok
    /\ PolicyBackend # "none"
    /\ outcomes[i].llm_ok

\* C1: process_and_index_document never raises to its caller: whatever download,
\* format detection, extraction, chunking and upsert do, and with or without a
\* vector store, it returns a record that is success=true with chunks_processed
\* and document_ids, or success=false with an error string.
C1_IndexNeverRaises ==
    index_result # Nothing =>
        /\ ~index_result.raised
        /\ LET r == index_result.value
           IN  IF r.success
               THEN /\ {"chunks_processed", "document_ids"} \subseteq DOMAIN r
                    /\ r.chunks_processed >= 1
                    /\ Len(r.document_ids) = r.chunks_processed
               ELSE /\ DOMAIN r = {"success", "error"}
                    /\ r.error # <<>>

\* C1 witness: the upsert raised and the call returned the failure record
C1_Witness ==
    /\ index_result # Nothing
    /\ ~index_result.raised
    /\ ~index_result.value.success
    /\ index_result.value.error = <<"IndexUnavailableError">>

\* C2: the answers are as many as the questions, position i holds the outcome of
\* question i (the backend's answer to it, or an error-annotated string), and a
\* failed question neither ends the loop nor touches another position.
C2_AnswersMatchQuestions ==
    InBatch =>
        /\ Len(answers) = Len(outcomes)
        /\ Len(answers) <= Len(request.questions)
        /\ \A i \in 1..Len(answers) :
              IF Answerable(i)
              THEN answers[i] = <<PolicyBackend, request.questions[i]>>
              ELSE IsErrorAnswer(answers[i])
        /\ answer_result # Nothing =>
              /\ answer_result.answers = answers
              /\ Len(answers) = Len(request.questions)

\* C2 witness: two different questions, the first failed at the generator, the
\* second answered
C2_Witness ==
    /\ InBatch
    /\ answer_result # Nothing
    /\ Len(answers) = 2
    /\ request.questions[1] # request.questions[2]
    /\ answers[1] = <<"Error: ", "LLM error: ", "OpenAI API error">>
    /\ answers[2] = <<"openai", request.questions[2]>>

\* C3: answer_multiple_questions returns success=true for every list of
\* questions, the empty list and a list whose questions all fail included;
\* success=false comes with no answers and only from a failure outside the
\* handling of the single questions.
C3_BatchSuccess ==
    answer_result # Nothing =>
        /\ request.is_list => answer_result.success
        /\ ~answer_result.success => ~request.is_list /\ answer_result.answers = <<>>

\* C3 witness: a batch of two questions that both failed returned success=true
C3_Witness ==
    /\ answer_result # Nothing
    /\ answer_result.success
    /\ Len(answer_result.answers) = 2
    /\ \A i \in 1..2 : IsErrorAnswer(answer_result.answers[i])

\* C4: in a /hackrx/run request nothing is retrieved, generated or answered
\* before process_and_index_document has returned success, and a request whose
\* indexing failed is Failed without any retrieval or generation call.
C4_IndexBeforeAnswer ==
    handler = "run" =>
        /\ (pc \in {"Indexed", "Answering", "Done"} \/ searches > 0
              \/ generations # <<>> \/ answers # <<>>)
           => /\ index_result # Nothing
              /\ ~index_result.raised
              /\ index_result.value.success
        /\ (index_result # Nothing /\ (index_result.raised \/ ~index_result.value.success))
           => /\ pc = "Failed"
              /\ response.status = 500
              /\ searches = 0
              /\ generations = <<>>
              /\ answers = <<>>

\* C4 witness: a request with questions whose indexing failed
C4_Witness ==
    /\ handler = "run"
    /\ pc = "Failed"
    /\ Len(request.questions) = 2
    /\ index_result # Nothing
    /\ ~index_result.value.success

\* The batch called on its own, after a process_and_index_document call that failed
AfterFailedIndexing ==
    /\ handler = "answer"
    /\ prior_index = "failed"
    /\ request.is_list

\* C5 as claimed: after a failed process_and_index_document call,
\* answer_multiple_questions reports every question as failed, with success=true.
C5_AsClaimed ==
    (AfterFailedIndexing /\ answer_result # Nothing) =>
        /\ answer_result.success
        /\ \A i \in 1..Len(answer_result.answers) : IsErrorAnswer(answer_result.answers[i])

\* C5 amended: after a failed process_and_index_document call, and with no entry
\* of an earlier call in the index, answer_multiple_questions reports every
\* question as failed: each answer is an "Error: ..." string, success=true, one
\* answer per question.
C5_FailedIndexingEmptyIndex ==
    (AfterFailedIndexing /\ index = <<>>) =>
        /\ \A i \in 1..Len(answers) : IsErrorAnswer(answers[i])
        /\ answer_result # Nothing =>
              /\ answer_result.success
              /\ Len(answer_result.answers) = Len(request.questions)

\* C5 witness: store, index query and backend all in order, the index empty
\* after the failed call, and the question reported as failed
C5_Witness ==
    /\ AfterFailedIndexing
    /\ index = <<>>
    /\ answer_result # Nothing
    /\ Len(answers) >= 1
    /\ vector_store
    /\ PolicyBackend = "openai"
    /\ outcomes[1].query_ok
    /\ outcomes[1].llm_ok
    /\ answers[1] = <<"Error: ", "No relevant context found">>

C7_OneBackendPerCall ==
    gen_result # Nothing =>
        /\ Len(gen_result.invoked) <= 1
        /\ PolicyBackend = "openai" =>
              /\ gen_result.invoked = <<"openai">>
              /\ gen_result.raised <=> ~gen_replies.openai.ok
        /\ PolicyBackend = "perplexity" =>
              /\ gen_result.invoked = <<"perplexity">>
              /\ gen_result.raised <=> ~gen_replies.perplexity.ok

\* C7 witness: the first backend failed while the second was configured and
\* would have answered, and the call raised
C7_Witness ==
    /\ gen_variant = "simple"
    /\ gen_result # Nothing
    /\ PolicyBackend = "openai"
    /\ SlotLive(perplexity_api_key, PERPLEXITY_PLACEHOLDER)
    /\ ~gen_replies.openai.ok
    /\ gen_replies.perplexity.ok
    /\ gen_result.raised
    /\ gen_result.invoked = <<"openai">>

\* The spans of a text that start with "{", end with "}" and parse as an object
ObjectSpans(t) ==
    {sp \in (1..Len(t)) \X (1..Len(t)) :
        /\ sp[1] < sp[2]
        /\ t[sp[1]] = "{"
        /\ t[sp[2]] = "}"
        /\ IsJsonObject(SelectSeq(SubSeq(t, sp[1], sp[2]), NotSpace))}

\* The first of them: leftmost start, then leftmost end
FirstObjectSpan(t) ==
    CHOOSE sp \in ObjectSpans(t) :
        \A other \in ObjectSpans(t) :
            \/ sp[1] < other[1]
            \/ sp[1] = other[1] /\ sp[2] <= other[2]

\* A structured call whose selected backend answered; the text it answered, as
\* the method holds it after .strip()
StructuredAnswered ==
    /\ gen_variant = "structured"
    /\ gen_result # Nothing
    /\ PolicyBackend # "none"
    /\ gen_replies[PolicyBackend].ok

ResponseText == Strip(gen_replies[PolicyBackend].content)

\* C8: when the selected backend answers with a text that holds no parseable
\* JSON object (no braces, or braces around invalid JSON),
\* generate_structured_response does not fail and returns the fallback record:
\* decision "Unable to parse structured response", amount "N/A", and the whole
\* response text as justification.
C8_FallbackOnNonJson ==
    (StructuredAnswered /\ ObjectSpans(ResponseText) = {}) =>
        /\ ~gen_result.raised
        /\ gen_result.value = [decision |-> "Unable to parse structured response",
                               amount |-> "N/A",
                               justification |-> ResponseText]

\* C8 witness: braces around invalid JSON, answered with the fallback record
C8_Witness ==
    /\ StructuredAnswered
    /\ ObjectSpans(ResponseText) = {}
    /\ RegexBraces(ResponseText) # <<>>
    /\ ~gen_result.raised
    /\ gen_result.value.justification = ResponseText

\* C9 as claimed: when the response text holds a brace-delimited object that
\* parses, the first such object is returned, whatever precedes or follows it;
\* the fallback record is returned only when the text holds none.
C9_AsClaimed ==
    StructuredAnswered =>
        /\ ~gen_result.raised
        /\ IF ObjectSpans(ResponseText) # {}
           THEN LET sp == FirstObjectSpan(ResponseText)
                IN  gen_result.value =
                        [json |-> SelectSeq(SubSeq(ResponseText, sp[1], sp[2]), NotSpace)]
           ELSE gen_result.value = Fallback(ResponseText)

\* C10: a text no longer than chunk_size (the empty text and a text of exactly
\* chunk_size characters included) comes back as exactly one chunk, the text
\* itself, for every overlap.
C10_ShortTextOneChunk ==
    (chunk_result # Nothing /\ TextLen(chunk_args.text) <= chunk_args.chunk_size) =>
        chunk_result.value = <<chunk_args.text>>

\* C10 witness: a text of exactly chunk_size characters, with an overlap as
\* large as the chunk size, came back as one chunk
C10_Witness ==
    /\ chunk_result # Nothing
    /\ TextLen(chunk_args.text) = chunk_args.chunk_size
    /\ chunk_args.overlap >= chunk_args.chunk_size
    /\ chunk_result.value = <<chunk_args.text>>

----------------------------------------------------------------------------
(* Properties of chunk_text *)

\* chunk_text was called within its contract: 0 <= overlap < chunk_size
ChunkedInContract ==
    /\ chunk_result # Nothing
    /\ chunk_args.overlap < chunk_args.chunk_size

Chunks == chunk_result.value

\* The chunks lie in source order, start at the first character of the text,
\* end at its last, and leave no character between two neighbours out
ChunksCover ==
    /\ Chunks # <<>>
    /\ TextLen(chunk_args.text) > 0 =>
          /\ Chunks[1].lo = chunk_args.text.lo
          /\ Chunks[Len(Chunks)].hi = chunk_args.text.hi
    /\ \A i \in 1..(Len(Chunks) - 1) :
          /\ Chunks[i].lo <= Chunks[i + 1].lo
          /\ Chunks[i].hi <= Chunks[i + 1].hi
          /\ Chunks[i + 1].lo <= Chunks[i].hi

\* Two neighbours have exactly overlap characters in common
AdjacentShareOverlap ==
    \A i \in 1..(Len(Chunks) - 1) :
        Chunks[i].hi - Chunks[i + 1].lo = chunk_args.overlap

\* No chunk but the last is shorter than another chunk
OnlyLastShorter ==
    \A i \in 1..(Len(Chunks) - 1) : \A j \in 1..Len(Chunks) :
        TextLen(Chunks[i]) >= TextLen(Chunks[j])

\* What chunk_text does keep within its contract: the chunks cover the text in
\* source order and neighbours share exactly overlap characters
ChunksCoverWithOverlap ==
    ChunkedInContract => (ChunksCover /\ AdjacentShareOverlap)

\* C11 as claimed: within the contract the chunks cover the text in source
\* order, neighbours share exactly overlap characters, and only the last chunk
\* may be shorter than the others.
C11_AsClaimed ==
    ChunkedInContract => (ChunksCover /\ AdjacentShareOverlap /\ OnlyLastShorter)

\* C12 as claimed: within the contract every chunk has at most chunk_size
\* characters and every chunk but the last has exactly chunk_size characters.
C12_AsClaimed ==
    ChunkedInContract =>
        /\ \A i \in 1..Len(Chunks) : TextLen(Chunks[i]) <= chunk_args.chunk_size
        /\ \A i \in 1..(Len(Chunks) - 1) : TextLen(Chunks[i]) = chunk_args.chunk_size

\* C20: for a text longer than chunk_size and 0 <= overlap < chunk_size, chunk 0
\* is T[0 : chunk_size] and chunk k >= 1 is T[k*chunk_size - overlap :
\* (k+1)*chunk_size] with the end clipped to len(T); the chunks stop with the
\* first one that reaches the end of the text.
C20_BoundaryArithmetic ==
    (ChunkedInContract /\ TextLen(chunk_args.text) > chunk_args.chunk_size) =>
        LET T == chunk_args.text
            n == TextLen(T)
            cs == chunk_args.chunk_size
        IN  /\ Chunks[1] = [lo |-> T.lo, hi |-> T.lo + cs]
            /\ \A k \in 1..(Len(Chunks) - 1) :
                  Chunks[k + 1] = [lo |-> T.lo + k * cs - chunk_args.overlap,
                                   hi |-> T.lo + Min((k + 1) * cs, n)]
            /\ (Len(Chunks) - 1) * cs < n
            /\ Len(Chunks) * cs >= n

\* C20 witness: a text cut into at least three chunks with a positive overlap,
\* the second chunk being longer than chunk_size
C20_Witness ==
    /\ ChunkedInContract
    /\ chunk_args.overlap > 0
    /\ Len(Chunks) >= 3
    /\ TextLen(Chunks[2]) = chunk_args.chunk_size + chunk_args.overlap

----------------------------------------------------------------------------
(* Properties of process_document *)

\* process_document ended with the unsupported-format error
UnsupportedRaised ==
    /\ load_result.raised
    /\ load_result.error[1] = "Unsupported file type: "

\* process_document got as far as a format-specific extractor: it returned the
\* extracted text or raised the extractor's error
ExtractorReached ==
    \/ ~load_result.raised
    \/ load_result.error = <<"ExtractionError">>

\* C13 as claimed: after a successful fetch process_document fails as
\* unsupported exactly when the lower-cased suffix is outside {.pdf, .docx,
\* .doc, .txt}, and a locator with a suffix of that set reaches an extractor.
C13_AsClaimed ==
    (load_result # Nothing /\ load_args.download.fetched) =>
        /\ UnsupportedRaised <=> (FileExtension(load_args.url) \notin SUPPORTED_FILE_TYPES)
        /\ (FileExtension(load_args.url) \in SUPPORTED_FILE_TYPES) => ExtractorReached

----------------------------------------------------------------------------
(* Properties of VectorStore *)

Added == store_added # Nothing /\ ~store_added.result.raised
AddFailed == store_added # Nothing /\ store_added.result.raised

Ids(idx) == {idx[i].id : i \in 1..Len(idx)}

\* The entry of the index with the given id
EntryOf(id) == index[CHOOSE i \in 1..Len(index) : index[i].id = id]

\* The first METADATA_TEXT_LIMIT characters of a text
IsTruncationOf(stored, text) ==
    IF IsLiteral(text)
    THEN /\ IsLiteral(stored)
         /\ Len(stored.chars) = Min(Len(text.chars), METADATA_TEXT_LIMIT)
         /\ \A i \in 1..Len(stored.chars) : stored.chars[i] = text.chars[i]
    ELSE /\ ~IsLiteral(stored)
         /\ stored.lo = text.lo
         /\ TextLen(stored) = Min(TextLen(text), METADATA_TEXT_LIMIT)

\* The input metadata of a document, with the truncated text added
CarriesDocument(entry, document) ==
    /\ entry.metadata.document_url = document.metadata.document_url
    /\ entry.metadata.file_type = document.metadata.file_type
    /\ entry.metadata.chunk_index = document.metadata.chunk_index
    /\ entry.metadata.total_chunks = document.metadata.total_chunks
    /\ entry.metadata.content_length = document.metadata.content_length
    /\ IsTruncationOf(entry.metadata.text, document.text)

\* C14: add_documents either raises, returns no id and leaves the index as it
\* was, or returns one id per document in input order; these ids are pairwise
\* distinct and none was in the index, every earlier entry is still in its
\* place unchanged, and the entry of the i-th id carries the i-th document's
\* metadata and its text cut to METADATA_TEXT_LIMIT characters.
C14_AddAllOrNothing ==
    /\ AddFailed =>
          /\ "value" \notin DOMAIN store_added.result
          /\ index = store_added.before
    /\ Added =>
          LET ids == store_added.result.value
              docs == store_added.documents
              before == store_added.before
          IN  /\ Len(ids) = Len(docs)
              /\ \A i, j \in 1..Len(ids) : i # j => ids[i] # ids[j]
              /\ \A i \in 1..Len(ids) : ids[i] \notin Ids(before)
              /\ Len(index) = Len(before) + Len(docs)
              /\ \A i \in 1..Len(before) : index[i] = before[i]
              /\ \A i \in 1..Len(ids) :
                    /\ index[Len(before) + i].id = ids[i]
                    /\ CarriesDocument(index[Len(before) + i], docs[i])

\* C14 witness: a second add_documents call stored two documents, one of them
\* longer than METADATA_TEXT_LIMIT characters, beside the entries of the first
C14_Witness ==
    /\ Added
    /\ store_added.before # <<>>
    /\ Len(store_added.documents) = 2
    /\ TextLen(store_added.documents[2].text) > METADATA_TEXT_LIMIT
    /\ TextLen(index[Len(index)].metadata.text) = METADATA_TEXT_LIMIT

Found == store_found # Nothing /\ ~store_found.result.raised

\* C15: a search that the index answers returns at most top_k results, no
\* result has a greater score than the one before it, and on an empty index
\* the result is the empty list and nothing is raised.
C15_SearchOrdered ==
    /\ Found =>
          LET results == store_found.result.value
          IN  /\ Len(results) <= store_found.top_k
              /\ \A i \in 1..(Len(results) - 1) :
                    ~ScoreGreater(results[i + 1].score, results[i].score)
    /\ (store_found # Nothing /\ store_found.query_ok /\ index = <<>>) =>
          store_found.result = Return(<<>>)

\* C15 witness: an index of more than top_k entries delivered top_k = 2
\* results, the second of a smaller score than the first
C15_Witness ==
    /\ Found
    /\ store_found.top_k = 2
    /\ Len(index) > 2
    /\ Len(store_found.result.value) = 2
    /\ ScoreGreater(store_found.result.value[1].score, store_found.result.value[2].score)

\* C16 as claimed: after add_documents([{text, metadata}]) succeeded,
\* search(text, top_k=1) that the index answers returns exactly one result,
\* whose text is the stored text of the entry just added.
C16_AsClaimed ==
    (/\ Added
     /\ Len(store_added.documents) = 1
     /\ store_found # Nothing
     /\ store_found.query_ok
     /\ store_found.top_k = 1
     /\ store_found.query = store_added.documents[1].text) =>
        /\ ~store_found.result.raised
        /\ Len(store_found.result.value) = 1
        /\ store_found.result.value[1].text
               = EntryOf(store_added.result.value[1]).metadata.text

\* C18 as claimed: every vector is EMBEDDING_DIM wide, a text of white space
\* only has the zero vector, and a query has the vector that was stored for
\* an entry of the same text, whichever processes stored and searched.
C18_AsClaimed ==
    /\ \A i \in 1..Len(index) : index[i].values.width = EMBEDDING_DIM
    /\ store_found # Nothing =>
          /\ store_found.query_embedding.width = EMBEDDING_DIM
          /\ store_found.query = StoreTexts.blank =>
                store_found.query_embedding = ZeroVector
          /\ \A i \in 1..Len(index) :
                index[i].metadata.text = store_found.query =>
                    index[i].values = store_found.query_embedding

----------------------------------------------------------------------------
(* The index across requests *)

\* A step in which process_and_index_document runs
IndexingStep == pc = "Indexing" /\ pc' # "Indexing"

\* C17: no step deletes or changes an entry of the index; a step of
\* process_and_index_document that reports success adds exactly
\* chunks_processed entries behind the existing ones, one that reports failure
\* adds none, and no other step of a request touches the index.
C17_IndexingNeverEvicts ==
    [][/\ Len(index') >= Len(index)
       /\ SubSeq(index', 1, Len(index)) = index
       /\ IndexingStep =>
             IF ~index_result'.raised /\ index_result'.value.success
             THEN Len(index') = Len(index) + index_result'.value.chunks_processed
             ELSE index' = index
       /\ ~IndexingStep => index' = index]_vars

\* C17 witness: a document of two chunks was indexed twice with success and
\* the index holds its first chunk twice, under two ids
C17_Witness ==
    /\ last_index = "ok"
    /\ \E i, j \in 1..Len(index) :
          /\ i < j
          /\ index[i].id # index[j].id
          /\ index[i].metadata.document_url = index[j].metadata.document_url
          /\ index[i].metadata.chunk_index = 0
          /\ index[j].metadata.chunk_index = 0
          /\ index[i].metadata.total_chunks = 2

----------------------------------------------------------------------------
(* Properties of index creation *)

\* C19 as claimed: an initialiser that finds the index does not issue a create,
\* no create_index call fails, and once every initialiser is through there is
\* one index of dimension 384 with the cosine metric and every initialiser is
\* connected to it.
C19_AsClaimed ==
    /\ \A k \in 1..Len(create_calls) :
          /\ initialiser[create_calls[k].by].listed = "no"
          /\ create_calls[k].outcome = "created"
    /\ (\A i \in Initialisers : initialiser[i].pc \in {"done", "failed"}) =>
          /\ collection = [dimension |-> 384, metric |-> "cosine"]
          /\ \A i \in Initialisers : initialiser[i].vector_store = "connected"

\* What the code keeps to when the initialisers run one after the other or
\* find the index: it is reused without a create, and the index is as created
EnsureReuses ==
    /\ \A k \in 1..Len(create_calls) : initialiser[create_calls[k].by].listed = "no"
    /\ \A i \in Initialisers :
          initialiser[i].listed = "yes" => initialiser[i].vector_store # "None"
    /\ collection # Nothing => collection = [dimension |-> 384, metric |-> "cosine"]
    /\ Cardinality({k \in 1..Len(create_calls) : create_calls[k].outcome = "created"}) <= 1

----------------------------------------------------------------------------
(* Termination of chunk_text *)

\* ceil(n / d)
CeilDiv(n, d) == (n + d - 1) \div d

\* What chunk_text returns is a non-empty list: one chunk for a text no longer
\* than chunk_size, ceil(len(text) / chunk_size) chunks for a longer one
ChunkCount ==
    chunk_result # Nothing =>
        /\ Len(chunk_result.value) >= 1
        /\ Len(chunk_result.value) =
              IF TextLen(chunk_args.text) <= chunk_args.chunk_size
              THEN 1
              ELSE CeilDiv(TextLen(chunk_args.text), chunk_args.chunk_size)

\* From one pass of the loop to the next, start is greater and one chunk is added
StartIncreases ==
    (chunk_frame # Nothing /\ chunk_frame' # chunk_frame) =>
        /\ chunk_frame'.start > chunk_frame.start
        /\ Len(chunk_frame'.chunks) = Len(chunk_frame.chunks) + 1

\* C21: for every text, every chunk_size > 0 and every overlap >= 0 (overlap
\* >= chunk_size included) chunk_text returns; what it returns is a non-empty
\* list of one chunk when len(text) <= chunk_size and of ceil(len(text) /
\* chunk_size) chunks otherwise, whatever the overlap; start is strictly greater
\* from one pass of the loop to the next.
C21_ChunkTextTerminates ==
    /\ []ChunkCount
    /\ [][StartIncreases]_vars
    /\ <>(chunk_result # Nothing)

\* C21 witness: a text went through the loop with an overlap no smaller than
\* chunk_size and came back as three chunks or more
C21_Witness ==
    /\ chunk_result # Nothing
    /\ chunk_frame # Nothing
    /\ chunk_args.overlap >= chunk_args.chunk_size
    /\ Len(chunk_result.value) >= 3
    /\ Len(chunk_result.value) = Len(chunk_frame.chunks)

----------------------------------------------------------------------------
(* The outcomes of answer_question *)

\* Question i of the batch reached the generator: the store was there and the
\* retrieval returned at least one result
ReachedGenerator(i) ==
    /\ vector_store
    /\ outcomes[i].query_ok
    /\ index # <<>>

\* What answer_multiple_questions is to record for question i
ExpectedAnswer(i) ==
    IF ~vector_store
    THEN <<"Error: ", "Vector store not available">>
    ELSE IF ~outcomes[i].query_ok
         THEN <<"Error: ", "IndexUnavailableError">>
         ELSE IF index = <<>>
              THEN <<"Error: ", "No relevant context found">>
              ELSE IF PolicyBackend = "none"
                   THEN <<"Error: ", "LLM error: ", "No LLM API keys provided">>
                   ELSE IF ~outcomes[i].llm_ok
                        THEN <<"Error: ", "LLM error: ">>
                             \o (IF PolicyBackend = "openai"
                                 THEN <<"OpenAI API error">>
                                 ELSE <<"Perplexity API error">>)
                        ELSE <<PolicyBackend, request.questions[i]>>

\* Every question answered so far has the outcome of its case; there was one
\* retrieval per question when the store is there and none otherwise, and the
\* generator was invoked for the questions that reached it and for no other
AnswerOutcomes ==
    InBatch =>
        /\ \A i \in 1..Len(answers) : answers[i] = ExpectedAnswer(i)
        /\ searches = (IF vector_store THEN Len(answers) ELSE 0)
        /\ Len(generations) =
              Cardinality({i \in 1..Len(answers) :
                              ReachedGenerator(i) /\ PolicyBackend # "none"})
        /\ \A k \in 1..Len(generations) : generations[k] = PolicyBackend

\* A step that invokes the generator has sent its retrieval before, and
\* answering a question never fails the call: one more answer is recorded
RetrievalFirst ==
    /\ Len(generations') > Len(generations) =>
          /\ searches' = searches + 1
          /\ Len(generations') = Len(generations) + 1
    /\ (pc = "Answering" /\ pc' = "Answering" /\ answers' # answers) =>
          /\ Len(answers') = Len(answers) + 1
          /\ searches' \in {searches, searches + 1}

\* C22: answer_question never raises; a question is answered with the
\* generator's text exactly when the vector store is there, the retrieval
\* returned at least one result and the generator returned; the retrieval comes
\* before the generation, and the generator is not invoked when the store is
\* missing or the retrieval returned nothing; in every other case the question
\* fails with "Vector store not available", "No relevant context found",
\* "LLM error: <cause>" or the retrieval's error, recorded by
\* answer_multiple_questions as "Error: <error>".
C22_AnswerQuestionOutcomes ==
    /\ []AnswerOutcomes
    /\ [][RetrievalFirst]_vars

\* C22 witness: a batch of two questions on a store that holds entries, the
\* first question failed at the retrieval without a generator call, the second
\* was answered by the generator
C22_Witness ==
    /\ InBatch
    /\ Len(answers) = 2
    /\ vector_store
    /\ index # <<>>
    /\ answers[1] = <<"Error: ", "IndexUnavailableError">>
    /\ answers[2] = <<PolicyBackend, request.questions[2]>>
    /\ searches = 2
    /\ Len(generations) = 1

----------------------------------------------------------------------------
(* Requests that share the index *)

\* Request s had its question answered from retrieved context
AnsweredFromContext(s) == sessions[s].pc = "Done" /\ sessions[s].context # <<>>

\* The context of request s holds a chunk written for another document
HoldsForeignChunk(s) ==
    \E k \in 1..Len(sessions[s].context) :
        sessions[s].context[k].metadata.document_url # sessions[s].documents

\* No step of a request waits for the other request: whatever the other
\* request is doing, a request that is to index or to answer can do so
NoLock ==
    \A s \in Sessions :
        /\ sessions[s].pc = "Indexing" => ENABLED SessionIndex(s)
        /\ sessions[s].pc = "Answering" => ENABLED SessionAnswer(s)

\* The retrieval is scoped to no request and no document: the context of an
\* answered question holds entries of the index, as many as the index held at
\* the query up to TOP_K_RESULTS, whichever document they were written for
RetrievalUnscoped ==
    \A s \in Sessions :
        AnsweredFromContext(s) =>
            /\ Len(sessions[s].context) = Min(TOP_K_RESULTS, sessions[s].seen)
            /\ \A k \in 1..Len(sessions[s].context) :
                  \E i \in 1..Len(index) : index[i].id = sessions[s].context[k].id

\* C23: the requests take no lock and the retrieval is scoped to no request
\* and no document, so that a question of one request is answered from context
\* that holds chunks written for the other request's document when that
\* request's indexing came before or between the steps of the first.
C23_SharedIndexUnscoped == NoLock /\ RetrievalUnscoped

\* C23 witness: the indexing of request 1 fell between the indexing and the
\* answering of request 2, request 1 is still under way, and the question of
\* request 2 was answered from context that holds a chunk of the document of
\* request 1
C23_Witness ==
    /\ sessions # Nothing
    /\ sessions[1].pc = "Answering"
    /\ AnsweredFromContext(2)
    /\ sessions[2].documents # sessions[1].documents
    /\ index[1].id[1] = 2
    /\ sessions[2].seen = Len(index)
    /\ HoldsForeignChunk(2)

----------------------------------------------------------------------------
(* The availability flag of get_system_status *)

\* get_system_status and a generate call have both been made on the instance
StatusAndGenerate == system_status # Nothing /\ gen_result # Nothing

\* The generate call found a backend to go to
BackendSelected == gen_result # NoProvider

\* What get_system_status does keep: it returns, it reports the store as the
\* instance has it, and its flag agrees with the selection on every pair of
\* credentials whose second slot is not the empty string
StatusAgreesUnlessEmpty ==
    /\ system_status # Nothing =>
          /\ ~system_status.raised
          /\ system_status.value.vector_store_available = vector_store
    /\ (StatusAndGenerate /\ perplexity_api_key # "") =>
          (system_status.value.llm_client_available <=> BackendSelected)

\* C24 as claimed: get_system_status never raises, and on every pair of
\* credential slots (absent, empty, placeholder, live) llm_client_available is
\* true exactly when a generate call selects a backend, that is, does not fail
\* with "No LLM API keys provided".
C24_AsClaimed ==
    /\ system_status # Nothing => ~system_status.raised
    /\ StatusAndGenerate =>
          (system_status.value.llm_client_available <=> BackendSelected)

====
